---- MODULE Spec2Model ----
(***************************************************************************)
(* r_linreg: a wrapper around statsmodels' OLS.  The module models          *)
(*   - linreg() of r_linreg.py: validate_data, clean_x_data, clean_y_data,  *)
(*     final_check, create_model, multiple_regr (specification Spec);       *)
(*   - var_info() of info.py (specification SpecInfo);                      *)
(*   - interaction, poly, encode, dummy of transform.py                     *)
(*     (specification SpecTransform).                                       *)
(***************************************************************************)
EXTENDS Integers, Sequences, FiniteSets, TLC

VARIABLES
    pc,         \* position of the run of linreg()
    x_in,       \* the argument x as the caller passed it
    y_in,       \* the argument y as the caller passed it
    const,      \* the argument const
    facts,      \* what the numbers in x and y are like (see Facts)
    x,          \* linreg's local x once it is a DataFrame
    y,          \* linreg's local y once it is a DataFrame
    out,        \* what has been printed, in order
    steps,      \* the calls linreg() has completed, in order
    lenArgs,    \* the python types len() has been applied to
    fitted,     \* the data create_model handed to the regression engine
    all_stats,  \* the keys of the returned OrderedDict, in iteration order
    ipc,        \* position of the run of var_info()
    ivar,       \* var_info's argument variable_name
    iall,       \* var_info's argument all_rows
    iout,       \* the parts var_info has printed, in order
    tpc,        \* position of the run of a transform function
    tcall,      \* the transform call: function and arguments
    heap,       \* DataFrame objects by reference
    tret        \* reference of the DataFrame a transform returned (0: none)

lvars == <<pc, x_in, y_in, const, facts, x, y, out, steps, lenArgs, fitted, all_stats>>
ivars == <<ipc, ivar, iall, iout>>
tvars == <<tpc, tcall, heap, tret>>
vars == <<lvars, ivars, tvars>>

----------------------------------------------------------------------------
(* Bounds of the model *)

MaxRows == 2
MaxCols == 2
MaxSS == 1
StatRows == 5
TMaxRows == 5

----------------------------------------------------------------------------
(* Python values *)

Max(a, b) == IF a > b THEN a ELSE b

RECURSIVE MaxOf(_)
MaxOf(s) == IF s = <<>> THEN 0 ELSE Max(Head(s), MaxOf(Tail(s)))

Digit(d) ==
    CASE d = 0 -> "0" [] d = 1 -> "1" [] d = 2 -> "2" [] d = 3 -> "3"
      [] d = 4 -> "4" [] d = 5 -> "5" [] d = 6 -> "6" [] d = 7 -> "7"
      [] d = 8 -> "8" [] d = 9 -> "9"

\* str(n) of a non-negative int, as an f-string formats it
RECURSIVE ToStr(_)
ToStr(n) == IF n < 10 THEN Digit(n) ELSE ToStr(n \div 10) \o Digit(n % 10)

\* A column label is a python int or a python str; 0 and "0" are different labels.
IntLabel(n) == <<"int", ToStr(n)>>
StrLabel(s) == <<"str", s>>

Letter(i) == CASE i = 1 -> "a" [] i = 2 -> "b" [] i = 3 -> "c" [] OTHER -> "d"

Ones(n) == [i \in 1..n |-> 1]

SeqsUpTo(S, n) == UNION {[1..k -> S] : k \in 0..n}

\* What the cells of a value hold: numbers, numbers and numeric strings, or
\* some string that float() cannot convert.
CellKinds == {"num", "numstr", "text"}

KindsFor(lens) == IF MaxOf(lens) = 0 THEN {"num"} ELSE CellKinds

NoName == "<None>"

\* lens: the number of cells of each item (list) or row (Series, DataFrame)
Value(type, nested, lens, name, cols, dtype) ==
    [type |-> type, nested |-> nested, lens |-> lens, name |-> name,
     cols |-> cols, dtype |-> dtype]

\* one-dimensional python lists: [], [1], [1, 2], ...
FlatLists ==
    UNION {{Value("list", FALSE, Ones(n), NoName, <<>>, d) : d \in KindsFor(Ones(n))} :
        n \in 0..MaxRows}

\* lists of lists, ragged ones included: [[]], [[1, 2]], [[1, 2], [3]], ...;
\* the longer rows first (neither len() nor the widest row depends on the order)
NestedLists ==
    UNION {{Value("list", TRUE, l, NoName, <<>>, d) : d \in KindsFor(l)} :
        l \in {r \in SeqsUpTo(0..MaxCols, MaxRows) \ {<<>>} :
                    \A i \in 1..(Len(r) - 1) : r[i] >= r[i + 1]}}

SeriesValues ==
    UNION {{Value("Series", FALSE, Ones(n), nm, <<>>, d) : d \in KindsFor(Ones(n))} :
        n \in 0..MaxRows, nm \in {NoName, "s"}}

\* a DataFrame with c columns labelled a, b, ... or 0, 1, ...
FrameCols(kind, c) ==
    [i \in 1..c |-> IF kind = "str" THEN StrLabel(Letter(i)) ELSE IntLabel(i - 1)]

FrameValues ==
    UNION {{Value("DataFrame", FALSE, [i \in 1..n |-> c], NoName, FrameCols(k, c), d) :
                d \in KindsFor([i \in 1..n |-> c])} :
        n \in 0..MaxRows, c \in 0..MaxCols, k \in {"str", "int"}}

\* values of a type linreg does not accept: a tuple has a len(), an int has none
OtherValues ==
    {Value("tuple", FALSE, Ones(1), NoName, <<>>, "num"),
     Value("int", FALSE, <<>>, NoName, <<>>, "num")}

Inputs == FlatLists \cup NestedLists \cup SeriesValues \cup FrameValues \cup OtherValues

\* a pandas DataFrame: column labels, number of rows, contents
Table(cols, nrows, dtype) == [cols |-> cols, nrows |-> nrows, dtype |-> dtype]

NoTable == Table(<<>>, 0, "none")

\* len(v) for the values that have one
PyLen(v) == Len(v.lens)

\* pd.DataFrame(v) and reset_index(drop=True): a list gets the labels 0, 1, ...,
\* an unnamed Series the label 0, a named Series its name
ToFrame(v) ==
    CASE v.type = "DataFrame" -> Table(v.cols, Len(v.lens), v.dtype)
      [] v.type = "Series" ->
            Table(<<IF v.name = NoName THEN IntLabel(0) ELSE StrLabel(v.name)>>,
                  Len(v.lens), v.dtype)
      [] v.type = "list" ->
            Table([i \in 1..MaxOf(v.lens) |-> IntLabel(i - 1)], Len(v.lens), v.dtype)

\* df.rename(columns={old: new})
Rename(df, old, new) ==
    [df EXCEPT !.cols = [i \in DOMAIN @ |-> IF @[i] = old THEN new ELSE @[i]]]

\* the f-string of clean_x_data and its renaming loop:
\* for old_label in range(len(columns)): rename {old_label: x_variable<old_label+1>}
\* the label numbered from the column's position, 0 first
new_label_zero_based(old_label) == "x_variable" \o ToStr(old_label)

new_label(old_label) == "x_variable" \o ToStr(old_label + 1)

RECURSIVE RenameLoop(_, _, _)
RenameLoop(df, old_label, n) ==
    IF old_label >= n THEN df
    ELSE RenameLoop(Rename(df, IntLabel(old_label), StrLabel(new_label(old_label))),
                    old_label + 1, n)

----------------------------------------------------------------------------
(* r_linreg.py *)

SupportedTypes == {"Series", "DataFrame", "list"}

TypeMsg == "x and y must be of type list, pandas Series, or pandas DataFrame."
NoDataMsg == "x or y contains no data."
YDimMsg == "y must be a 1-dimensional list or pandas Series."
XFloatMsg == "Could not convert string in \"x\" to float."
YFloatMsg == "Could not convert string in \"y\" DataFrame to float."
YColsMsg == "y can only have one column."
UnequalMsg == "x and y do not have equal numbers of items."
EngineMsg == "Regression analysis cannot be run. Data contain one or more non-numeric values."

\* The outcome of a call: it returns, or it ends the program through exit(), or
\* it raises an exception nothing catches.  lens: the types len() was applied to.
Outcome(end, msgs, lens, xt, yt) ==
    [end |-> end, msgs |-> msgs, lens |-> lens, x |-> xt, y |-> yt]

\* len() of a python value raises TypeError when the type has no len()
HasLen(v) == v.type # "int"

\* validate_data with the emptiness check ahead of the type check
validate_data_len_first(xv, yv) ==
    IF ~HasLen(xv)
    THEN Outcome("raise", <<>>, <<xv.type>>, NoTable, NoTable)
    ELSE IF PyLen(xv) = 0
    THEN Outcome("exit", <<NoDataMsg>>, <<xv.type>>, NoTable, NoTable)
    ELSE IF ~HasLen(yv)
    THEN Outcome("raise", <<>>, <<xv.type, yv.type>>, NoTable, NoTable)
    ELSE IF PyLen(yv) = 0
    THEN Outcome("exit", <<NoDataMsg>>, <<xv.type, yv.type>>, NoTable, NoTable)
    ELSE IF xv.type \notin SupportedTypes \/ yv.type \notin SupportedTypes
    THEN Outcome("exit", <<TypeMsg>>, <<xv.type, yv.type>>, NoTable, NoTable)
    ELSE IF yv.type = "DataFrame" /\ Len(yv.cols) > 1
    THEN Outcome("exit", <<YDimMsg>>, <<xv.type, yv.type>>, NoTable, NoTable)
    ELSE Outcome("return", <<>>, <<xv.type, yv.type>>, NoTable, NoTable)

validate_data(xv, yv) ==
    LET x_type_valid == xv.type \in SupportedTypes
        y_type_valid == yv.type \in SupportedTypes
    IN  IF ~x_type_valid \/ ~y_type_valid
        THEN Outcome("exit", <<TypeMsg>>, <<>>, NoTable, NoTable)
        ELSE IF PyLen(xv) = 0
        THEN Outcome("exit", <<NoDataMsg>>, <<xv.type>>, NoTable, NoTable)
        ELSE IF PyLen(yv) = 0
        THEN Outcome("exit", <<NoDataMsg>>, <<xv.type, yv.type>>, NoTable, NoTable)
        ELSE IF yv.type = "DataFrame" /\ Len(yv.cols) > 1
        THEN Outcome("exit", <<YDimMsg>>, <<xv.type, yv.type>>, NoTable, NoTable)
        ELSE Outcome("return", <<>>, <<xv.type, yv.type>>, NoTable, NoTable)

clean_x_data(_x) ==
    IF _x.type = "list"
    THEN LET df == ToFrame(_x) IN RenameLoop(df, 0, Len(df.cols))
    ELSE ToFrame(_x)

clean_y_data(_y) ==
    IF _y.type = "list"
    THEN Rename(ToFrame(_y), IntLabel(0), StrLabel("y"))
    ELSE ToFrame(_y)

\* df.astype(dtype=np.float64): ValueError on a string that is no number
CanFloat(df) == df.dtype # "text"
AsFloat(df) == [df EXCEPT !.dtype = "float64"]

\* final_check whose length check prints its message and goes on (no sys.exit())
final_check_no_exit(xt, yt) ==
    IF ~CanFloat(xt)
    THEN Outcome("exit", <<XFloatMsg>>, <<>>, xt, yt)
    ELSE IF ~CanFloat(yt)
    THEN Outcome("exit", <<YFloatMsg>>, <<>>, AsFloat(xt), yt)
    ELSE IF Len(yt.cols) # 1
    THEN Outcome("exit", <<YColsMsg, "y.head()">>, <<>>, AsFloat(xt), AsFloat(yt))
    ELSE IF xt.nrows # yt.nrows
    THEN Outcome("return", <<"x shape", "x.tail()", "y shape", "y.tail()", UnequalMsg>>,
                 <<>>, AsFloat(xt), AsFloat(yt))
    ELSE Outcome("return", <<>>, <<>>, AsFloat(xt), AsFloat(yt))

\* final_check without its check (2), the number of columns of y
final_check_no_column_check(xt, yt) ==
    IF ~CanFloat(xt)
    THEN Outcome("exit", <<XFloatMsg>>, <<>>, xt, yt)
    ELSE IF ~CanFloat(yt)
    THEN Outcome("exit", <<YFloatMsg>>, <<>>, AsFloat(xt), yt)
    ELSE IF xt.nrows # yt.nrows
    THEN Outcome("exit", <<"x shape", "x.tail()", "y shape", "y.tail()", UnequalMsg>>,
                 <<>>, AsFloat(xt), AsFloat(yt))
    ELSE Outcome("return", <<>>, <<>>, AsFloat(xt), AsFloat(yt))

\* final_check without its check (3), the lengths of x and y
final_check_no_length_check(xt, yt) ==
    IF ~CanFloat(xt)
    THEN Outcome("exit", <<XFloatMsg>>, <<>>, xt, yt)
    ELSE IF ~CanFloat(yt)
    THEN Outcome("exit", <<YFloatMsg>>, <<>>, AsFloat(xt), yt)
    ELSE IF Len(yt.cols) # 1
    THEN Outcome("exit", <<YColsMsg, "y.head()">>, <<>>, AsFloat(xt), AsFloat(yt))
    ELSE Outcome("return", <<>>, <<>>, AsFloat(xt), AsFloat(yt))

final_check(xt, yt) ==
    IF ~CanFloat(xt)
    THEN Outcome("exit", <<XFloatMsg>>, <<>>, xt, yt)
    ELSE IF ~CanFloat(yt)
    THEN Outcome("exit", <<YFloatMsg>>, <<>>, AsFloat(xt), yt)
    ELSE IF Len(yt.cols) # 1
    THEN Outcome("exit", <<YColsMsg, "y.head()">>, <<>>, AsFloat(xt), AsFloat(yt))
    ELSE IF xt.nrows # yt.nrows
    THEN Outcome("exit", <<"x shape", "x.tail()", "y shape", "y.tail()", UnequalMsg>>,
                 <<>>, AsFloat(xt), AsFloat(yt))
    ELSE Outcome("return", <<>>, <<>>, AsFloat(xt), AsFloat(yt))

\* statsmodels' add_constant(data=x_data), has_constant='skip' by default: a
\* column "const" is prepended, unless the data already hold a column with one
\* non-zero value in every row
add_constant(df, constant_column) ==
    IF constant_column /\ Len(df.cols) > 0
    THEN df
    ELSE [df EXCEPT !.cols = <<StrLabel("const")>> \o @]

NoFit == [x |-> NoTable, y |-> NoTable, terms |-> <<>>, params |-> <<>>]

\* the names of model_results.params for the formula "y_data ~ t1 + t2 + ...":
\* patsy puts an Intercept term first in every formula that does not remove it
\* (with "- 1" or "+ 0"), and create_model's formula never does
ols_params(terms) == <<"Intercept">> \o [i \in DOMAIN terms |-> terms[i][2]]

\* " + ".join(labels) raises TypeError when a label is not a str
CanJoin(labels) == \A i \in DOMAIN labels : labels[i][1] = "str"

\* create_model: engine is what ols(formula, df) does with the formula and the
\* data, "ok" or "PatsyError" (PatsyError or ValueError, caught at line 337);
\* the formula "y_data ~ " with no term after the ~ is a PatsyError
create_model(x_data, y_data, include_constant, engine, constant_column) ==
    LET xc == IF include_constant THEN add_constant(x_data, constant_column) ELSE x_data
        terms == IF include_constant THEN SubSeq(xc.cols, 2, Len(xc.cols)) ELSE xc.cols
        fit == [x |-> xc, y |-> y_data, terms |-> terms, params |-> <<>>]
    IN  IF ~CanJoin(terms)
        THEN [end |-> "raise", msgs |-> <<>>, fit |-> NoFit]
        ELSE IF engine = "PatsyError" \/ terms = <<>>
        THEN [end |-> "exit", msgs |-> <<EngineMsg, "err">>, fit |-> fit]
        ELSE [end |-> "return", msgs |-> <<>>,
              fit |-> [fit EXCEPT !.params = ols_params(terms)]]

\* all_data without its last entry, "const": const
all_data_keys_without_const ==
    <<"model_results", "x_variable_names", "y_variable_name", "n", "y", "X",
      "sumx", "sumy", "sumxy", "sumx2", "sumy2", "x_bar", "y_bar", "SXX", "SYY",
      "SXY", "anova", "anova_summary", "coefficients", "intercept", "slope",
      "SE_coefficients", "std_error_b0", "std_error_b1", "t_statistics",
      "t_pvalues", "t_intercept", "t_intercept_p", "t_slope", "t_slope_p",
      "DFM", "DFR", "DFT", "k", "SS_model", "RSS", "SS_total", "MSE_total",
      "MSE_model", "MSE", "SEE", "r_squared", "r_squared_adj", "correlation",
      "F", "F_pvalue", "Durbin-Watson", "corr_matrix", "cov_matrix",
      "fitted_values", "residuals">>

\* the keys of the dict literal all_data, in the order written
all_data_keys ==
    <<"model_results", "x_variable_names", "y_variable_name", "n", "y", "X",
      "sumx", "sumy", "sumxy", "sumx2", "sumy2", "x_bar", "y_bar", "SXX", "SYY",
      "SXY", "anova", "anova_summary", "coefficients", "intercept", "slope",
      "SE_coefficients", "std_error_b0", "std_error_b1", "t_statistics",
      "t_pvalues", "t_intercept", "t_intercept_p", "t_slope", "t_slope_p",
      "DFM", "DFR", "DFT", "k", "SS_model", "RSS", "SS_total", "MSE_total",
      "MSE_model", "MSE", "SEE", "r_squared", "r_squared_adj", "correlation",
      "F", "F_pvalue", "Durbin-Watson", "corr_matrix", "cov_matrix",
      "fitted_values", "residuals", "const">>

\* info.included_vars(): the keys group by group
included_vars ==
    << <<"model_results">>,
       <<"x_variable_names", "y_variable_name", "n", "y", "X">>,
       <<"sumx", "sumy", "sumxy", "sumx2", "sumy2", "x_bar", "y_bar", "SXX",
         "SYY", "SXY">>,
       <<"anova", "anova_summary", "coefficients", "intercept", "slope",
         "SE_coefficients", "std_error_b0", "std_error_b1", "t_statistics",
         "t_pvalues", "t_intercept", "t_intercept_p", "t_slope", "t_slope_p",
         "DFM", "DFR", "DFT", "k">>,
       <<"SS_model", "RSS", "SS_total", "MSE_total", "MSE_model", "MSE", "SEE",
         "r_squared", "r_squared_adj", "correlation", "F", "F_pvalue">>,
       <<"Durbin-Watson", "corr_matrix", "cov_matrix", "fitted_values",
         "residuals">>,
       <<"const">> >>

Range(s) == {s[i] : i \in DOMAIN s}

\* for i in vars_list: for j in i: key_list.append(j)
RECURSIVE Flatten(_)
Flatten(ll) == IF ll = <<>> THEN <<>> ELSE Head(ll) \o Flatten(Tail(ll))

\* the keys of OrderedDict((k, ...) for k in key_list): a key repeated in
\* key_list keeps the place of its first occurrence
OrderedDictKeys(ks) ==
    LET first == {i \in DOMAIN ks : \A j \in 1..(i - 1) : ks[j] # ks[i]}
    IN  [n \in 1..Cardinality(first) |->
            ks[CHOOSE i \in first : Cardinality({j \in first : j <= i}) = n]]

\* the developer's check of all_data against included_vars(): sys.exit() on the
\* first key of one that the other lacks
dev_check(data_keys, key_list) ==
    IF \E i \in DOMAIN data_keys : data_keys[i] \notin Range(key_list)
    THEN "exit"
    ELSE IF \E i \in DOMAIN key_list : key_list[i] \notin Range(data_keys)
    THEN "exit"
    ELSE "pass"

\* rename_columns(df, has_constant): X1, X2, ...; with has_constant the first
\* column keeps its label and the second becomes X1
rename_columns(df, has_constant) ==
    [df EXCEPT !.cols =
        [i \in DOMAIN @ |->
            IF has_constant
            THEN IF i = 1 THEN @[i] ELSE StrLabel("X" \o ToStr(i - 1))
            ELSE StrLabel("X" \o ToStr(i))]]

KeyMsg == "The key was not found."

\* What the numbers in x and y are like, as far as the fit depends on it:
\* constant_column: some column of x holds one non-zero number in every row;
\* deficit: how many columns of the design matrix depend on the others;
\* ess, ssr: the explained and the residual sum of squares of the fit
Facts ==
    [constant_column : BOOLEAN, deficit : 0..1, ess : 0..MaxSS, ssr : 0..MaxSS]

\* numbers with nothing particular about them
PlainFacts == [constant_column |-> FALSE, deficit |-> 0, ess |-> 1, ssr |-> 1]

\* the rows of a value that hold a number in every column: pd.DataFrame fills
\* the rows of a ragged list with NaN
CompleteRows(v) == {i \in DOMAIN v.lens : v.lens[i] = MaxOf(v.lens)}

\* model_results.nobs: patsy drops the rows that hold a NaN in x or in y
nobs(xv, yv) == Cardinality(CompleteRows(xv) \cap CompleteRows(yv))

\* a quotient num / den of integers; a zero denominator gives nan or an infinity
Quot(num, den) == <<num, den>>

Finite(q) == q[2] # 0

\* q1 == q2 in python: nan equals nothing, and no quotient of the fit that is
\* compared here is infinite on both sides
QuotEq(q1, q2) == Finite(q1) /\ Finite(q2) /\ q1[1] * q2[2] = q2[1] * q1[2]

QuotSum(q1, q2) == Quot(q1[1] * q2[2] + q2[1] * q1[2], q1[2] * q2[2])

Min(a, b) == IF a < b THEN a ELSE b

\* model.fit(): statsmodels' RegressionResults for the parameters params (the
\* Intercept among them, so k_constant = 1) on n complete rows
RegressionResults(params, n, f) ==
    LET rank == Max(1, Min(n, Len(params)) - f.deficit)
        df_model == rank - 1
        df_resid == n - rank
        ssr == IF df_resid = 0 THEN 0 ELSE f.ssr
        ess == IF df_model = 0 THEN 0 ELSE f.ess
        centered_tss == ess + ssr
    IN  [params |-> params, bse |-> params, tvalues |-> params, pvalues |-> params,
         nobs |-> n, df_model |-> df_model, df_resid |-> df_resid,
         ess |-> ess, ssr |-> ssr, centered_tss |-> centered_tss,
         mse_model |-> Quot(ess, df_model),
         mse_resid |-> Quot(ssr, df_resid),
         mse_total |-> Quot(centered_tss, df_resid + df_model)]

NoStats == [keys |-> <<>>, x_variable_names |-> <<>>, y_variable_name |-> <<>>,
            X |-> NoTable, const |-> FALSE,
            n |-> 0, DFM |-> 0, DFR |-> 0, DFT |-> 0,
            intercept |-> "", slope |-> <<>>,
            std_error_b0 |-> "", std_error_b1 |-> <<>>,
            t_intercept |-> "", t_slope |-> <<>>,
            t_intercept_p |-> "", t_slope_p |-> <<>>,
            MSE |-> Quot(0, 0), MSE_model |-> Quot(0, 0), MSE_total |-> Quot(0, 0)]

\* multiple_regr after create_model returned: the dictionary it returns
\* (list(y_original.columns)[0] raises IndexError when y has no column).
\* An estimate, a standard error, a t value and a p value are each given as
\* the name of the parameter they belong to.
multiple_regr(X, Y, c, model_results) ==
    LET key_list == Flatten(included_vars)
    IN  IF Len(Y.cols) = 0
        THEN [end |-> "raise", msgs |-> <<>>, stats |-> NoStats]
        ELSE IF dev_check(all_data_keys, key_list) = "exit"
        THEN [end |-> "exit", msgs |-> <<KeyMsg>>, stats |-> NoStats]
        ELSE [end |-> "return", msgs |-> <<>>,
              stats |-> [keys |-> OrderedDictKeys(key_list),
                         x_variable_names |-> X.cols,
                         y_variable_name |-> Y.cols[1],
                         X |-> rename_columns(X, c),
                         const |-> c,
                         n |-> model_results.nobs,
                         DFM |-> Len(model_results.params),
                         DFR |-> model_results.nobs - Len(model_results.params),
                         DFT |-> model_results.nobs - 1,
                         intercept |-> Head(model_results.params),
                         slope |-> Tail(model_results.params),
                         std_error_b0 |-> Head(model_results.bse),
                         std_error_b1 |-> Tail(model_results.bse),
                         t_intercept |-> Head(model_results.tvalues),
                         t_slope |-> Tail(model_results.tvalues),
                         t_intercept_p |-> Head(model_results.pvalues),
                         t_slope_p |-> Tail(model_results.pvalues),
                         MSE |-> model_results.mse_resid,
                         MSE_model |-> model_results.mse_model,
                         MSE_total |-> model_results.mse_total]]

\* linreg() without its call of final_check
linreg_body_without_final_check ==
    <<"validate_data", "clean_x_data", "clean_y_data", "multiple_regr", "return">>

\* the statements of linreg(), in the order written
linreg_body ==
    <<"validate_data", "clean_x_data", "clean_y_data", "final_check",
      "multiple_regr", "return">>

\* where a run is after statement stmt ended with end
After(stmt, end) ==
    CASE end = "exit" -> "exited"
      [] end = "raise" -> "raised"
      [] OTHER ->
            LET i == CHOOSE j \in DOMAIN linreg_body : linreg_body[j] = stmt
            IN  linreg_body[i + 1]

IdleInfo ==
    /\ ipc = "idle" /\ ivar = "" /\ iall = FALSE /\ iout = <<>>

IdleTransform ==
    /\ tpc = "idle"
    /\ tcall = [fn |-> "none", args |-> <<>>, df |-> [cols |-> <<>>, data |-> <<>>]]
    /\ heap = <<>>
    /\ tret = 0

\* linreg(x, y, const) is called, on numbers with nothing particular about them
Init ==
    /\ x_in \in Inputs
    /\ y_in \in Inputs
    /\ const \in BOOLEAN
    /\ facts = PlainFacts
    /\ pc = linreg_body[1]
    /\ x = NoTable
    /\ y = NoTable
    /\ out = <<>>
    /\ steps = <<>>
    /\ lenArgs = <<>>
    /\ fitted = NoFit
    /\ all_stats = NoStats
    /\ IdleInfo
    /\ IdleTransform

ValidateData ==
    /\ pc = "validate_data"
    /\ LET r == validate_data(x_in, y_in)
       IN  /\ pc' = After("validate_data", r.end)
           /\ out' = out \o r.msgs
           /\ lenArgs' = lenArgs \o r.lens
    /\ steps' = Append(steps, "validate_data")
    /\ UNCHANGED <<x_in, y_in, const, facts, x, y, fitted, all_stats, ivars, tvars>>

\* a value that is no DataFrame, Series or list leaves the local x unbound:
\* "return x" raises UnboundLocalError
CleanXData ==
    /\ pc = "clean_x_data"
    /\ IF x_in.type \in SupportedTypes
       THEN /\ x' = clean_x_data(x_in)
            /\ pc' = After("clean_x_data", "return")
       ELSE /\ x' = x
            /\ pc' = After("clean_x_data", "raise")
    /\ steps' = Append(steps, "clean_x_data")
    /\ UNCHANGED <<x_in, y_in, const, facts, y, out, lenArgs, fitted, all_stats, ivars, tvars>>

CleanYData ==
    /\ pc = "clean_y_data"
    /\ IF y_in.type \in SupportedTypes
       THEN /\ y' = clean_y_data(y_in)
            /\ pc' = After("clean_y_data", "return")
       ELSE /\ y' = y
            /\ pc' = After("clean_y_data", "raise")
    /\ steps' = Append(steps, "clean_y_data")
    /\ UNCHANGED <<x_in, y_in, const, facts, x, out, lenArgs, fitted, all_stats, ivars, tvars>>

FinalCheck ==
    /\ pc = "final_check"
    /\ LET r == final_check(x, y)
       IN  /\ pc' = After("final_check", r.end)
           /\ out' = out \o r.msgs
           /\ x' = r.x
           /\ y' = r.y
    /\ steps' = Append(steps, "final_check")
    /\ UNCHANGED <<x_in, y_in, const, facts, lenArgs, fitted, all_stats, ivars, tvars>>

\* multiple_regr: create_model, then the statistics and the dictionary
MultipleRegr ==
    /\ pc = "multiple_regr"
    /\ \E engine \in {"ok", "PatsyError"} :
        LET m == create_model(x, y, const, engine, facts.constant_column)
            r == multiple_regr(x, y, const,
                               RegressionResults(m.fit.params, nobs(x_in, y_in), facts))
        IN  /\ fitted' = m.fit
            /\ IF m.end # "return"
               THEN /\ pc' = After("multiple_regr", m.end)
                    /\ out' = out \o m.msgs
                    /\ all_stats' = all_stats
               ELSE /\ pc' = After("multiple_regr", r.end)
                    /\ out' = out \o r.msgs
                    /\ all_stats' = r.stats
    /\ steps' = Append(steps, "multiple_regr")
    /\ UNCHANGED <<x_in, y_in, const, facts, x, y, lenArgs, ivars, tvars>>

Return ==
    /\ pc = "return"
    /\ pc' = "returned"
    /\ UNCHANGED <<x_in, y_in, const, facts, x, y, out, steps, lenArgs, fitted, all_stats,
                   ivars, tvars>>

Next ==
    \/ ValidateData
    \/ CleanXData
    \/ CleanYData
    \/ FinalCheck
    \/ MultipleRegr
    \/ Return

Spec == Init /\ [][Next]_vars

\* the sizes of a sample with more rows than the model has parameters, so
\* that the fit leaves residual degrees of freedom
SampleSizes == (MaxCols + 2)..StatRows

\* x and y that hold numbers only: lists, lists of rows of one length,
\* DataFrames with named columns and named Series
NumberLists ==
    {Value("list", FALSE, Ones(n), NoName, <<>>, "num") : n \in SampleSizes}
        \cup {Value("list", TRUE, [i \in 1..n |-> c], NoName, <<>>, "num") :
                n \in SampleSizes, c \in 1..MaxCols}

NumberFrames ==
    {Value("DataFrame", FALSE, [i \in 1..n |-> c], NoName, FrameCols("str", c), "num") :
        n \in SampleSizes, c \in 1..MaxCols}

NumberSeries == {Value("Series", FALSE, Ones(n), "s", <<>>, "num") : n \in SampleSizes}

\* linreg(x, y, const) is called on samples of numbers of every kind
InitStats ==
    /\ x_in \in NumberLists \cup NumberFrames \cup NumberSeries
    /\ y_in \in {v \in NumberLists : ~v.nested} \cup NumberSeries
    /\ const \in BOOLEAN
    /\ facts \in Facts
    /\ pc = linreg_body[1]
    /\ x = NoTable
    /\ y = NoTable
    /\ out = <<>>
    /\ steps = <<>>
    /\ lenArgs = <<>>
    /\ fitted = NoFit
    /\ all_stats = NoStats
    /\ IdleInfo
    /\ IdleTransform

SpecStats == InitStats /\ [][Next]_vars

----------------------------------------------------------------------------
(* info.py: var_info *)

\* the keys of the dict DESCRIPTIONS, in the order written
DESCRIPTIONS ==
    <<"model_results", "x_variable_names", "y_variable_name", "n", "y", "X",
      "sumx", "sumy", "sumxy", "sumx2", "sumy2", "x_bar", "y_bar", "SXX", "SYY",
      "SXY", "anova", "anova_summary", "coefficients", "intercept", "slope",
      "SE_coefficients", "std_error_b0", "std_error_b1", "t_statistics",
      "t_pvalues", "t_intercept", "t_intercept_p", "t_slope", "t_slope_p",
      "DFM", "DFR", "DFT", "k", "SS_model", "RSS", "SS_total", "MSE_total",
      "MSE_model", "MSE", "SEE", "r_squared", "r_squared_adj", "correlation",
      "F", "F_pvalue", "Durbin-Watson", "corr_matrix", "cov_matrix",
      "fitted_values", "residuals">>

\* the keys of the dict CALCULATIONS, in the order written
CALCULATIONS ==
    <<"model_results", "x_variable_names", "y_variable_name", "n", "y", "X",
      "sumx", "sumy", "sumxy", "sumx2", "sumy2", "x_bar", "y_bar", "SXX", "SYY",
      "SXY", "anova", "anova_summary", "coefficients", "intercept", "slope",
      "SE_coefficients", "std_error_b0", "std_error_b1", "t_statistics",
      "t_pvalues", "t_intercept", "t_intercept_p", "t_slope", "t_slope_p",
      "DFM", "DFR", "DFT", "k", "SS_model", "RSS", "SS_total", "MSE_total",
      "MSE_model", "MSE", "SEE", "r_squared", "r_squared_adj", "correlation",
      "F", "F_pvalue", "Durbin-Watson", "corr_matrix", "cov_matrix",
      "fitted_values", "residuals">>

\* the names var_info prints with head() or to_string()
FrameVars ==
    {"y", "X", "fitted_values", "residuals", "corr_matrix", "corr_matrix_exog",
     "cov_matrix"}

\* the keys whose value multiple_regr built as a python list
ListVars ==
    {"x_variable_names", "sumx", "sumxy", "sumx2", "x_bar", "SXX", "SXY",
     "coefficients", "slope", "SE_coefficients", "std_error_b1", "t_statistics",
     "t_pvalues", "t_slope", "t_slope_p"}

\* var_info(results, variable_name, all_rows): what it prints and how it ends;
\* DESCRIPTIONS[variable_name] and CALCULATIONS[variable_name] raise KeyError
\* for a name the dict does not hold
var_info(results, variable_name, all_rows) ==
    IF variable_name = ""
    THEN [end |-> "return", printed |-> <<"Variable name missing.", "print_variables()">>]
    ELSE IF variable_name \notin Range(results.keys)
    THEN [end |-> "return", printed |-> <<"not found in results.", "print_variables()">>]
    ELSE LET value ==
                IF variable_name \in FrameVars
                THEN IF all_rows THEN "value: to_string()" ELSE "value: head()"
                ELSE IF variable_name \in ListVars
                THEN "value: items" ELSE "value"
             head == <<"RESULTS FOR", value>>
         IN  IF variable_name \notin Range(DESCRIPTIONS)
             THEN [end |-> "raise", printed |-> head]
             ELSE IF variable_name \notin Range(CALCULATIONS)
             THEN [end |-> "raise", printed |-> head \o <<"DESCRIPTION">>]
             ELSE [end |-> "return",
                   printed |-> head \o <<"DESCRIPTION", "CALCULATION">>]

\* the names var_info is called with: every key of results, no name, and a
\* name that is no key
InfoNames == Range(Flatten(included_vars)) \cup {"", "corr_matrix_exog"}

\* a run of linreg(x, y, const) on lists of numbers that has returned results
InitInfo ==
    /\ const \in BOOLEAN
    /\ \E n \in 1..MaxRows :
            /\ x_in = Value("list", FALSE, Ones(n), NoName, <<>>, "num")
            /\ y_in = Value("list", FALSE, Ones(n), NoName, <<>>, "num")
    /\ pc = "returned"
    /\ x = final_check(clean_x_data(x_in), clean_y_data(y_in)).x
    /\ y = final_check(clean_x_data(x_in), clean_y_data(y_in)).y
    /\ out = <<>>
    /\ steps = SubSeq(linreg_body, 1, 5)
    /\ lenArgs = validate_data(x_in, y_in).lens
    /\ facts = PlainFacts
    /\ fitted = create_model(x, y, const, "ok", facts.constant_column).fit
    /\ all_stats = multiple_regr(x, y, const,
                    RegressionResults(fitted.params, nobs(x_in, y_in), facts)).stats
    /\ ipc = "ready" /\ ivar = "" /\ iall = FALSE /\ iout = <<>>
    /\ IdleTransform

VarInfo ==
    /\ ipc = "ready"
    /\ \E variable_name \in InfoNames, all_rows \in BOOLEAN :
        LET r == var_info(all_stats, variable_name, all_rows)
        IN  /\ ivar' = variable_name
            /\ iall' = all_rows
            /\ iout' = r.printed
            /\ ipc' = IF r.end = "return" THEN "returned" ELSE "raised"
    /\ UNCHANGED <<lvars, tvars>>

NextInfo == VarInfo

SpecInfo == InitInfo /\ [][NextInfo]_vars

----------------------------------------------------------------------------
(* transform.py *)

\* A DataFrame object: column names, and the values of each column.
Frame(cols, data) == [cols |-> cols, data |-> data]

\* n values that cycle through 1..k: k unique values
Cycle(n, k) == [i \in 1..n |-> ((i - 1) % k) + 1]

\* the caller's DataFrames: columns "a" and "b", 1..TMaxRows rows, each column
\* with 1..n unique values
TFrames ==
    UNION {{Frame(<<"a", "b">>, <<Cycle(n, ka), Cycle(n, kb)>>) :
                ka \in 1..n, kb \in 1..n} : n \in 1..TMaxRows}

ColumnArgs == {"a", "b", "zz"}

HasColumn(df, c) == \E i \in DOMAIN df.cols : df.cols[i] = c

ColumnOf(df, c) == df.data[CHOOSE i \in DOMAIN df.cols : df.cols[i] = c]

\* df[name] = values: an existing column is replaced, a new one is appended
SetColumn(df, name, values) ==
    IF HasColumn(df, name)
    THEN [df EXCEPT !.data[CHOOSE i \in DOMAIN df.cols : df.cols[i] = name] = values]
    ELSE Frame(Append(df.cols, name), Append(df.data, values))

\* Series.nunique()
NUnique(values) == Cardinality(Range(values))

\* the objects of the heap after deepcopy(heap[ref]), the copy last
deepcopy(h, ref) == Append(h, h[ref])

\* df_314066 = df: no copy, the caller's own object
copy_ref_alias(h, ref) == ref

\* the reference of the copy deepcopy(heap[ref]) made
copy_ref(h, ref) == Len(h) + 1

RECURSIVE Power(_, _)
Power(b, e) == IF e = 0 THEN 1 ELSE b * Power(b, e - 1)

\* the sorted unique values of a column
RECURSIVE Sorted(_)
Sorted(S) ==
    IF S = {} THEN <<>>
    ELSE LET m == CHOOSE v \in S : \A w \in S : v <= w
         IN  <<m>> \o Sorted(S \ {m})

IndexOf(seq, v) == CHOOSE i \in DOMAIN seq : seq[i] = v

\* LabelEncoder().fit_transform(values): the rank of each value, from 0
LabelEncode(values) ==
    LET classes == Sorted(Range(values))
    IN  [i \in DOMAIN values |-> IndexOf(classes, values[i]) - 1]

\* the result of a transform: the heap after it, the reference returned
TResult(end, h, ref) == [end |-> end, heap |-> h, ret |-> ref]

interaction(h, df, column1, column2) ==
    LET h1 == deepcopy(h, df)
        df_314066 == copy_ref(h, df)
    IN  IF ~HasColumn(h1[df_314066], column1) \/ ~HasColumn(h1[df_314066], column2)
        THEN TResult("exit", h1, 0)
        ELSE LET c1 == ColumnOf(h1[df_314066], column1)
                 c2 == ColumnOf(h1[df_314066], column2)
                 product == [i \in DOMAIN c1 |-> c1[i] * c2[i]]
             IN  TResult("return",
                         [h1 EXCEPT ![df_314066] =
                            SetColumn(@, column1 \o "*" \o column2, product)],
                         df_314066)

\* order2 is twice the order, so that 2.5 is 5: order < 2, then
\* round(order, 0) != order
poly(h, df, column, order2) ==
    LET h1 == deepcopy(h, df)
        df_314066 == copy_ref(h, df)
    IN  IF order2 < 4 THEN TResult("exit", h1, 0)
        ELSE IF order2 % 2 # 0 THEN TResult("exit", h1, 0)
        ELSE IF ~HasColumn(h1[df_314066], column) THEN TResult("exit", h1, 0)
        ELSE LET c == ColumnOf(h1[df_314066], column)
                 order == order2 \div 2
             IN  TResult("return",
                         [h1 EXCEPT ![df_314066] =
                            SetColumn(@, column \o ToStr(order),
                                      [i \in DOMAIN c |-> Power(c[i], order)])],
                         df_314066)

\* df_314066[column].nunique() comes first: KeyError for a missing column
encode(h, df, column) ==
    LET h1 == deepcopy(h, df)
        df_314066 == copy_ref(h, df)
    IN  IF ~HasColumn(h1[df_314066], column) THEN TResult("raise", h1, 0)
        ELSE IF NUnique(ColumnOf(h1[df_314066], column)) # 2 THEN TResult("exit", h1, 0)
        ELSE TResult("return",
                     [h1 EXCEPT ![df_314066] =
                        SetColumn(@, column, LabelEncode(ColumnOf(@, column)))],
                     df_314066)

\* pd.concat([df, encoded_column_df], axis=1): a new DataFrame with the columns
\* of df and one column <column>_<value> per unique value
RECURSIVE ConcatDummies(_, _, _, _)
ConcatDummies(df, column, values, classes) ==
    IF classes = <<>> THEN df
    ELSE ConcatDummies(
            Frame(Append(df.cols, column \o "_" \o ToStr(Head(classes))),
                  Append(df.data,
                         [i \in DOMAIN values |-> IF values[i] = Head(classes) THEN 1 ELSE 0])),
            column, values, Tail(classes))

dummy(h, df, column) ==
    IF ~HasColumn(h[df], column) THEN TResult("exit", h, 0)
    ELSE IF NUnique(ColumnOf(h[df], column)) > 4 THEN TResult("exit", h, 0)
    ELSE LET values == ColumnOf(h[df], column)
         IN  TResult("return",
                     Append(h, ConcatDummies(h[df], column, values, Sorted(Range(values)))),
                     Len(h) + 1)

\* twice the orders poly is called with: 1, 2, 2.5, 3
Orders2 == {2, 4, 5, 6}

NoCall == [fn |-> "none", args |-> <<>>, df |-> Frame(<<>>, <<>>)]

\* the caller holds one DataFrame, heap[1]
InitTransform ==
    /\ \E f \in TFrames :
            /\ heap = <<f>>
            /\ tcall = [NoCall EXCEPT !.df = f]
    /\ tpc = "ready"
    /\ tret = 0
    /\ pc = "idle" /\ x_in = NoTable /\ y_in = NoTable /\ const = FALSE
    /\ facts = PlainFacts
    /\ x = NoTable /\ y = NoTable /\ out = <<>> /\ steps = <<>> /\ lenArgs = <<>>
    /\ fitted = NoFit /\ all_stats = NoStats
    /\ IdleInfo

TEnd(r) ==
    /\ heap' = r.heap
    /\ tret' = r.ret
    /\ tpc' = CASE r.end = "return" -> "returned"
                [] r.end = "exit" -> "exited"
                [] OTHER -> "raised"

Interaction ==
    /\ tpc = "ready"
    /\ \E column1 \in ColumnArgs, column2 \in ColumnArgs :
            /\ tcall' = [tcall EXCEPT !.fn = "interaction", !.args = <<column1, column2>>]
            /\ TEnd(interaction(heap, 1, column1, column2))
    /\ UNCHANGED <<lvars, ivars>>

Poly ==
    /\ tpc = "ready"
    /\ \E column \in ColumnArgs, order2 \in Orders2 :
            /\ tcall' = [tcall EXCEPT !.fn = "poly", !.args = <<column, ToStr(order2)>>]
            /\ TEnd(poly(heap, 1, column, order2))
    /\ UNCHANGED <<lvars, ivars>>

Encode ==
    /\ tpc = "ready"
    /\ \E column \in ColumnArgs :
            /\ tcall' = [tcall EXCEPT !.fn = "encode", !.args = <<column>>]
            /\ TEnd(encode(heap, 1, column))
    /\ UNCHANGED <<lvars, ivars>>

Dummy ==
    /\ tpc = "ready"
    /\ \E column \in ColumnArgs :
            /\ tcall' = [tcall EXCEPT !.fn = "dummy", !.args = <<column>>]
            /\ TEnd(dummy(heap, 1, column))
    /\ UNCHANGED <<lvars, ivars>>

NextTransform ==
    \/ Interaction
    \/ Poly
    \/ Encode
    \/ Dummy

SpecTransform == InitTransform /\ [][NextTransform]_vars

----------------------------------------------------------------------------
(* Properties of linreg() *)

Called(stmt) == stmt \in Range(steps)

Ended == pc \in {"exited", "raised", "returned"}

\* model fitting is reached when multiple_regr (which calls create_model) is entered
FitReached == Called("multiple_regr")

Printed(msg) == msg \in Range(out)

CheckMsgs ==
    {TypeMsg, NoDataMsg, YDimMsg, XFloatMsg, YFloatMsg, YColsMsg, UnequalMsg}

\* C1: model fitting is entered only after validate_data, clean_x_data,
\* clean_y_data and final_check have run, in that order, each returning without
\* ending the program; the data then fitted passed every check: supported types,
\* non-zero length, float64 contents, one y column, equal numbers of rows.
C1_FitOnlyAfterChecks ==
    FitReached =>
        /\ steps = <<"validate_data", "clean_x_data", "clean_y_data", "final_check",
                     "multiple_regr">>
        /\ \A m \in CheckMsgs : ~Printed(m)
        /\ x_in.type \in SupportedTypes /\ y_in.type \in SupportedTypes
        /\ Len(x_in.lens) > 0 /\ Len(y_in.lens) > 0
        /\ x.dtype = "float64" /\ y.dtype = "float64"
        /\ x_in.dtype # "text" /\ y_in.dtype # "text"
        /\ Len(y.cols) = 1
        /\ x.nrows = y.nrows

C1_Witness ==
    /\ pc = "returned"
    /\ fitted # NoFit
    /\ Len(x.cols) = 2
    /\ x_in.dtype = "numstr"

\* what the checks of validate_data and final_check reject, stated on the
\* arguments: a type, a length, the contents, the columns of y, the rows
WidthOf(v) == IF v.type = "DataFrame" THEN Len(v.cols) ELSE MaxOf(v.lens)

FailsCheck ==
    \/ x_in.type \notin SupportedTypes
    \/ y_in.type \notin SupportedTypes
    \/ Len(x_in.lens) = 0
    \/ Len(y_in.lens) = 0
    \/ x_in.dtype = "text"
    \/ y_in.dtype = "text"
    \/ WidthOf(y_in) # 1
    \/ Len(x_in.lens) # Len(y_in.lens)

\* C2: an input that fails a check of validate_data or final_check ends in
\* program termination (exit) with a message printed and no dictionary, partial
\* or complete; a run that has ended has terminated or has returned a dictionary
\* with all the keys; a run that has not ended can take a step.
C2_FailedCheckTerminates ==
    /\ (FailsCheck /\ Called("final_check")) =>
            /\ pc = "exited"
            /\ \E m \in CheckMsgs : Printed(m)
    /\ FailsCheck =>
            /\ pc # "returned" /\ pc # "raised"
            /\ all_stats = NoStats
            /\ (pc = "exited" => \E m \in CheckMsgs : Printed(m))
    /\ pc = "returned" =>
            /\ Range(all_stats.keys) = Range(all_data_keys)
            /\ ~FailsCheck
    /\ all_stats # NoStats => Range(all_stats.keys) = Range(all_data_keys)
    /\ Ended \/ pc \in Range(linreg_body)
    /\ Ended \/ ENABLED Next

C2_Witness ==
    /\ pc = "exited"
    /\ Called("final_check")
    /\ Printed(UnequalMsg)
    /\ all_stats = NoStats

\* C3: the returned dictionary has exactly 52 keys, the names of
\* included_vars() group by group, each once, in that order, model_results
\* first and const last; the developer's check never ends the program.
C3_FiftyTwoKeysInOrder ==
    /\ ~Printed(KeyMsg)
    /\ pc \in {"return", "returned"} =>
            /\ Len(all_stats.keys) = 52
            /\ Cardinality(Range(all_stats.keys)) = 52
            /\ all_stats.keys = Flatten(included_vars)
            /\ Range(all_stats.keys) = Range(all_data_keys)
            /\ all_stats.keys[1] = "model_results"
            /\ all_stats.keys[52] = "const"

C3_Witness ==
    /\ pc = "returned"
    /\ Len(all_stats.keys) = 52
    /\ const = FALSE

\* C4: when x or y is no list, Series or DataFrame, validate_data prints the
\* type message and ends the program, and len() has been applied to nothing;
\* len() is only ever applied to a list, a Series or a DataFrame.
C4_TypeCheckBeforeLen ==
    /\ \A i \in DOMAIN lenArgs : lenArgs[i] \in SupportedTypes
    /\ ((x_in.type \notin SupportedTypes \/ y_in.type \notin SupportedTypes)
            /\ Called("validate_data")) =>
            /\ pc = "exited"
            /\ out = <<TypeMsg>>
            /\ lenArgs = <<>>
            /\ steps = <<"validate_data">>

C4_Witness ==
    /\ pc = "exited"
    /\ x_in.type = "list" /\ Len(x_in.lens) = 0
    /\ y_in.type = "int"
    /\ out = <<TypeMsg>>

\* a value that holds no data: no rows, or no columns of values
NoData(v) == Len(v.lens) = 0 \/ WidthOf(v) = 0

\* C5: for every x or y of a supported type that contains no data (no rows or
\* no columns of values), linreg ends with "x or y contains no data." before a
\* model is created.
C5_NoDataRejected ==
    (/\ x_in.type \in SupportedTypes
     /\ y_in.type \in SupportedTypes
     /\ NoData(x_in) \/ NoData(y_in)
     /\ Called("validate_data")) =>
        /\ pc = "exited"
        /\ out = <<NoDataMsg>>
        /\ ~FitReached

\* C6: a y with more than one column after coercion never reaches model
\* fitting: the run ends in exit before multiple_regr is entered; a model is
\* only fitted with a y of exactly one column.
C6_YHasOneColumn ==
    /\ FitReached => (Len(y.cols) = 1 /\ WidthOf(y_in) = 1 /\ Len(fitted.y.cols) <= 1)
    /\ (y_in.type \in SupportedTypes /\ WidthOf(y_in) > 1) =>
            /\ ~FitReached
            /\ fitted = NoFit
            /\ pc \notin {"raised", "return", "returned", "multiple_regr"}
            /\ (Called("final_check") => pc = "exited")

C6_Witness ==
    /\ y_in.type = "list" /\ y_in.nested /\ WidthOf(y_in) = 2
    /\ Called("final_check")
    /\ pc = "exited"
    /\ Printed(YColsMsg)

\* C7 as stated: whenever the coerced x and y have different numbers of rows,
\* final_check ends the program with "x and y do not have equal numbers of
\* items."
C7_UnequalRowsAlwaysLengthMessage ==
    (Called("final_check") /\ x.nrows # y.nrows) =>
        (pc = "exited" /\ Printed(UnequalMsg))

\* C7 amended: when the coerced x and y have different numbers of rows,
\* final_check ends the program; it does so with "x and y do not have equal
\* numbers of items." when x and y convert to float and y has one column, and
\* with the message of the earlier check that fails otherwise; a model is only
\* fitted when x and y have the same number of rows.
C7_UnequalRowsTerminate ==
    /\ (Called("final_check") /\ x.nrows # y.nrows) =>
            /\ pc = "exited"
            /\ ~FitReached
            /\ IF x_in.dtype = "text" THEN out = <<XFloatMsg>>
               ELSE IF y_in.dtype = "text" THEN out = <<YFloatMsg>>
               ELSE IF Len(y.cols) # 1 THEN out[1] = YColsMsg /\ ~Printed(UnequalMsg)
               ELSE out[Len(out)] = UnequalMsg
    /\ FitReached => (x.nrows = y.nrows /\ Len(x_in.lens) = Len(y_in.lens))
    /\ FitReached /\ fitted # NoFit => fitted.x.nrows = fitted.y.nrows

C7_Witness ==
    /\ Called("final_check")
    /\ x.nrows = 2 /\ y.nrows = 1
    /\ pc = "exited"
    /\ out[Len(out)] = UnequalMsg

\* the names clean_x_data gives the columns of a list
XVariableNames == <<"x_variable1", "x_variable2", "x_variable3", "x_variable4">>

\* C8: from a list clean_x_data makes a table with as many columns as the
\* longest row, named x_variable1, x_variable2, ... in column order, and
\* clean_y_data names the single column of a one-column list "y"; the columns
\* of a DataFrame and the name of a named Series are kept as they are.
C8_ColumnNames ==
    /\ (Called("clean_x_data") /\ x_in.type = "list") =>
            /\ Len(x.cols) = MaxOf(x_in.lens)
            /\ \A i \in DOMAIN x.cols : x.cols[i] = <<"str", XVariableNames[i]>>
    /\ (Called("clean_y_data") /\ y_in.type = "list" /\ MaxOf(y_in.lens) = 1) =>
            y.cols = << <<"str", "y">> >>
    /\ (Called("clean_x_data") /\ x_in.type = "DataFrame") => x.cols = x_in.cols
    /\ (Called("clean_y_data") /\ y_in.type = "DataFrame") => y.cols = y_in.cols
    /\ (Called("clean_x_data") /\ x_in.type = "Series" /\ x_in.name # NoName) =>
            x.cols = << <<"str", x_in.name>> >>
    /\ (Called("clean_y_data") /\ y_in.type = "Series" /\ y_in.name # NoName) =>
            y.cols = << <<"str", y_in.name>> >>

C8_Witness ==
    /\ pc = "final_check"
    /\ x_in.type = "list" /\ x_in.nested
    /\ x.cols = << <<"str", "x_variable1">>, <<"str", "x_variable2">> >>
    /\ y_in.type = "list"
    /\ y.cols = << <<"str", "y">> >>

----------------------------------------------------------------------------
(* Properties of var_info() *)

\* C9: for every key of a results dictionary linreg returned, var_info
\* completes and prints the value, the definition and the calculation.
C9_VarInfoPrintsAllThree ==
    (ipc # "ready" /\ ivar \in Range(all_stats.keys)) =>
        /\ ipc = "returned"
        /\ Len(iout) = 4
        /\ iout[3] = "DESCRIPTION"
        /\ iout[4] = "CALCULATION"

----------------------------------------------------------------------------
(* Properties of the transform functions *)

\* C10: interaction, poly, encode and dummy leave the caller's DataFrame as it
\* was, same columns and same values, whether they return, end the program or
\* raise; what they return is another DataFrame object.
C10_CallerFrameUnmodified ==
    /\ heap[1] = tcall.df
    /\ tpc = "returned" =>
            /\ tret # 1
            /\ tret \in DOMAIN heap
            /\ (tcall.fn # "encode" => Len(heap[tret].cols) > Len(heap[1].cols))
            /\ (tcall.fn # "encode" =>
                    \A i \in DOMAIN heap[1].cols :
                        /\ heap[tret].cols[i] = heap[1].cols[i]
                        /\ heap[tret].data[i] = heap[1].data[i])

C10_Witness ==
    /\ tpc = "returned"
    /\ tcall.fn = "interaction"
    /\ tcall.args = <<"a", "b">>
    /\ heap[tret].cols = <<"a", "b", "a*b">>
    /\ heap[1].cols = <<"a", "b">>

\* C11: in every result of linreg, DFM is the number of X variables plus 1
\* when const is True and the number of X variables when const is False,
\* DFR = n - DFM, DFT = n - 1 and DFM + DFR = n, n being the number of rows
\* of X.
C11_DegreesOfFreedom ==
    pc = "returned" =>
        LET n == all_stats.X.nrows
        IN  /\ all_stats.DFM =
                    Len(all_stats.x_variable_names) + (IF const THEN 1 ELSE 0)
            /\ all_stats.n = n
            /\ all_stats.DFR = n - all_stats.DFM
            /\ all_stats.DFT = n - 1
            /\ all_stats.DFM + all_stats.DFR = n

\* the names of the X variables of the results, as strings
XNames == [i \in DOMAIN all_stats.x_variable_names |-> all_stats.x_variable_names[i][2]]

\* C12: in every result of linreg, for const True and False, intercept is the
\* estimate of the intercept and never that of an X variable, and slope holds
\* exactly one estimate per name in x_variable_names, in the same order; the
\* same split holds for std_error_b0/std_error_b1, t_intercept/t_slope and
\* t_intercept_p/t_slope_p.
C12_InterceptAndSlopes ==
    pc = "returned" =>
        /\ all_stats.intercept = "Intercept"
        /\ all_stats.intercept \notin Range(XNames)
        /\ all_stats.slope = XNames
        /\ all_stats.std_error_b0 = "Intercept" /\ all_stats.std_error_b1 = XNames
        /\ all_stats.t_intercept = "Intercept" /\ all_stats.t_slope = XNames
        /\ all_stats.t_intercept_p = "Intercept" /\ all_stats.t_slope_p = XNames

\* C13: in every result of linreg, MSE_total is the sum of MSE_model and MSE.
C13_MSETotalIsSum ==
    pc = "returned" =>
        QuotEq(all_stats.MSE_total, QuotSum(all_stats.MSE_model, all_stats.MSE))

====
